---- MODULE Spec2Model ----
(***************************************************************************)
(* A model of the org-iac-poc Pulumi programs: the environment stacks      *)
(* (dev, staging, prod), the foundation stack and the policy factory.      *)
(* A stack program is a straight-line script; the model runs it phase by   *)
(* phase over configuration tables drawn from small sets and records every *)
(* resource constructor call, in program order, in `resources`.            *)
(***************************************************************************)
EXTENDS Integers, Sequences, FiniteSets, TLC

VARIABLES
    stack,            \* which program is evaluated
    groupsConfig,     \* config/groups: sequence of [name, environment]
    rolesConfig,      \* config/roles: role key -> sequence of [name, policyArns]
    usersConfig,      \* config/users: sequence of user records
    policiesConfig,   \* config/policies: [managedPolicies, envPolicies] name lists
    pc,               \* position in the program
    resources,        \* every `new aws.X(name, args)` so far, in program order
    managedPolicies,  \* Map name -> PolicyResult (its key set)
    envPolicies,      \* Map name -> PolicyResult of the environment policies
    groups,           \* Map name -> Group handle (its key set)
    roles,            \* Map name -> Role handle (its key set)
    selUsers,         \* devUsers / prodUsers / stagingUsers
    ui,               \* index of the next user of selUsers to wire
    thrown,           \* message of the exception that ended the program, or ""
    factory,          \* which version of the policy factory is linked
    calls,            \* createPolicy calls the caller has still to make
    ouConfig,         \* config/organizationalUnits: forest of [name, children]
    accountsConfig,   \* config/accounts: sequence of [ou, name]
    organizationalUnits, \* Map OU name -> OU handle (its key set)
    work,             \* pending createOUs invocations, innermost first
    applied,          \* URNs the provisioning engine has created so far
    appliedBefore,    \* URNs that existed when the current evaluation started
    run,              \* number of the current evaluation of the program
    lastDeclared,     \* URNs the previous evaluation declared
    outputs,          \* what the program exports or persists: [sink, key, fields]
    upstream          \* the foundation stack as the backend knows it

envVars == <<stack, groupsConfig, rolesConfig, usersConfig, policiesConfig, pc,
             resources, managedPolicies, envPolicies, groups, roles, selUsers, ui,
             thrown>>

envConfigVars == <<groupsConfig, rolesConfig, usersConfig, policiesConfig>>

envEvalVars == <<managedPolicies, envPolicies, groups, roles, selUsers, ui>>

policyVars == <<factory, calls>>

foundationConfigVars == <<ouConfig, accountsConfig>>

foundationEvalVars == <<organizationalUnits, work>>

engineVars == <<applied, appliedBefore, run, lastDeclared>>

vars == <<envVars, policyVars, foundationConfigVars, foundationEvalVars, engineVars,
          outputs, upstream>>

-----------------------------------------------------------------------------
(* Bounds of the model *)

MaxRefs == 2
MaxConfigSize == 4

(* Name universes (taken from the configuration files) *)
GroupNames == {"org-everyone", "dev-developers"}
RoleNames == {"dev-limited-role", "prod-system-role"}
RoleRefs == RoleNames \cup {"ghost-role"}
ManagedPolicyNames == {"sandbox-environments-access"}
EnvPolicyNames == {"sandbox1-full-access"}
PolicyRefs == ManagedPolicyNames \cup EnvPolicyNames
RoleKeys == {"dev", "development", "staging", "prod", "production", "all"}
ArnPool == {"arn:aws:iam::aws:policy/ReadOnlyAccess"}
EnvStacks == {"dev1", "dev", "staging", "prod"}

-----------------------------------------------------------------------------
(* Sequence helpers *)

SeqsUpTo(S, n) == UNION {[1..k -> S] : k \in 0..n}

Range(s) == {s[i] : i \in DOMAIN s}

NoDup(s) == \A i, j \in DOMAIN s : i # j => s[i] # s[j]

RECURSIVE Flatten(_)
Flatten(ss) == IF ss = <<>> THEN <<>> ELSE Head(ss) \o Flatten(Tail(ss))

MapSeq(s, Op(_)) == [i \in DOMAIN s |-> Op(s[i])]

Names(table) == {table[i].name : i \in DOMAIN table}

-----------------------------------------------------------------------------
(* Resource declarations *)

NoTag == "<none>"

Res(type, name, owner, refs, doc, env, managedBy, deps) ==
    [type |-> type, name |-> name, owner |-> owner, refs |-> refs, doc |-> doc,
     env |-> env, managedBy |-> managedBy, deps |-> deps]

RoleArn(roleName) == "arn:aws:iam::role/" \o roleName

PolicyArn(policyName) == "arn:aws:iam::policy/" \o policyName

Declared(rs, type, name) == {i \in DOMAIN rs : rs[i].type = type /\ rs[i].name = name}

LastSegment(arn) ==
    \* arn.split("/").pop(): the text after the last "/"
    LET tails == {"ReadOnlyAccess", "PowerUserAccess", "AdministratorAccess"}
                     \cup ManagedPolicyNames \cup EnvPolicyNames
        heads == {"arn:aws:iam::aws:policy", "arn:aws:iam::policy",
                  "arn:aws:iam::123456789012:policy"}
    IN  CHOOSE t \in tails : \E h \in heads : arn = h \o "/" \o t

-----------------------------------------------------------------------------
(* The four environment stack programs differ in these literals *)

GroupEnv(s) ==
    CASE s = "staging" -> "staging" [] s = "prod" -> "prod" [] OTHER -> "dev"

RoleKey(s) ==
    CASE s = "dev1" -> "development" [] s = "dev" -> "dev"
      [] s = "staging" -> "staging" [] OTHER -> "production"

EnvironmentName(s) ==
    CASE s = "dev1" -> "development" [] s = "dev" -> "dev"
      [] s = "staging" -> "staging" [] OTHER -> "production"

UserEnvTag(s) ==
    CASE s = "staging" -> "staging" [] s = "prod" -> "prod" [] OTHER -> "dev"

-----------------------------------------------------------------------------
(* Policy factory *)

\* a caller that passes no tags
EmptyTags == [k \in {} |-> ""]

IamPolicyTagsCallerWins(tags, optEnvironment) ==
    \* faulty variant: the caller's tags are spread after the two fixed keys
    [k \in DOMAIN tags \cup {"Environment", "ManagedBy"} |->
        CASE k \in DOMAIN tags -> tags[k]
          [] k = "Environment" -> IF optEnvironment = NoTag THEN "default" ELSE optEnvironment
          [] OTHER -> "pulumi"]

\* { ...tags, Environment: options.environment || "default", ManagedBy: "pulumi" }
IamPolicyTags(tags, optEnvironment) ==
    [k \in DOMAIN tags \cup {"Environment", "ManagedBy"} |->
        CASE k = "Environment" -> IF optEnvironment = NoTag THEN "default" ELSE optEnvironment
          [] k = "ManagedBy" -> "pulumi"
          [] OTHER -> tags[k]]

createIamPolicy(name, optEnvironment, doc, refs, deps) ==
    <<Res("aws:iam:Policy", name, "", refs, doc,
          IamPolicyTags(EmptyTags, optEnvironment)["Environment"],
          IamPolicyTags(EmptyTags, optEnvironment)["ManagedBy"], deps)>>

createServiceControlPolicy(name, targetId) ==
    <<Res("aws:organizations:Policy", name, "", <<>>, "SERVICE_CONTROL_POLICY",
          NoTag, NoTag, {}),
      Res("aws:organizations:PolicyAttachment", name \o "-attachment", name,
          <<targetId>>, "", NoTag, NoTag, {<<"aws:organizations:Policy", name>>})>>

createTagPolicyAsIamPolicy(version, name, targetId) ==
    \* faulty variant: the tag policy is built as an IAM policy
    <<Res("aws:iam:Policy", name, "", <<>>, "TAG_POLICY", NoTag, NoTag, {})>>

createTagPolicy(version, name, targetId) ==
    <<Res("aws:organizations:Policy", name, "", <<>>, "TAG_POLICY", NoTag, NoTag, {})>>
    \o IF version = "v2" /\ targetId # NoTag
       THEN <<Res("aws:organizations:PolicyAttachment", name \o "-attachment", name,
                  <<targetId>>, "", NoTag, NoTag,
                  {<<"aws:organizations:Policy", name>>})>>
       ELSE <<>>

createPermissionBoundary(name) ==
    <<Res("aws:iam:Policy", name, "/permission-boundaries/", <<>>,
          "PermissionBoundary", NoTag, "pulumi", {})>>

PolicyType(version) ==
    IF version = "v1"
    THEN [IAM |-> "iam", SCP |-> "scp", TAG |-> "tag",
          PERMISSION_BOUNDARY |-> "permission_boundary"]
    ELSE [IAM |-> "IAM", SCP |-> "SERVICE_CONTROL_POLICY", TAG |-> "TAG_POLICY",
          PERMISSION_BOUNDARY |-> "<no such member>"]

Unsupported(type) == "Unsupported policy type: " \o type

createPolicyDefaultsToIam(version, options) ==
    \* faulty variant: an unrecognised type is built as an IAM policy
    LET T == PolicyType(version)
    IN  CASE options.type = T.SCP ->
               [declared |-> createServiceControlPolicy(options.name, options.targetId),
                thrown |-> ""]
          [] options.type = T.TAG ->
               [declared |-> createTagPolicy(version, options.name, options.targetId),
                thrown |-> ""]
          [] options.type = T.PERMISSION_BOUNDARY /\ version = "v1" ->
               [declared |-> createPermissionBoundary(options.name), thrown |-> ""]
          [] OTHER ->
               [declared |-> createIamPolicy(options.name, options.environment,
                                             "document", <<>>, {}),
                thrown |-> ""]

createPolicy(version, options) ==
    LET T == PolicyType(version)
    IN  CASE options.type = T.IAM ->
               [declared |-> createIamPolicy(options.name, options.environment,
                                             "document", <<>>, {}),
                thrown |-> ""]
          [] options.type = T.SCP ->
               [declared |-> createServiceControlPolicy(options.name, options.targetId),
                thrown |-> ""]
          [] options.type = T.TAG ->
               [declared |-> createTagPolicy(version, options.name, options.targetId),
                thrown |-> ""]
          [] options.type = T.PERMISSION_BOUNDARY /\ version = "v1" ->
               [declared |-> createPermissionBoundary(options.name), thrown |-> ""]
          [] OTHER -> [declared |-> <<>>, thrown |-> Unsupported(options.type)]

-----------------------------------------------------------------------------
(* Environment filter *)

GroupsForEnvExactOnly(table, e) ==
    \* faulty variant: forgets the "all" records
    SelectSeq(table, LAMBDA g : g.environment = e)

GroupsForEnv(table, e) ==
    SelectSeq(table, LAMBDA g : g.environment = e \/ g.environment = "all")

RolesForKeyOrAll(table, key) ==
    \* faulty variant: merges the records listed under "all"
    table[key] \o table["all"]

RolesForKey(table, key) == table[key]

UserInGroups(s, user, groupsMap, envGroupsConfig) ==
    IF s = "prod"
    THEN \E i \in DOMAIN user.groups :
             \E j \in DOMAIN envGroupsConfig : envGroupsConfig[j].name = user.groups[i]
    ELSE \E i \in DOMAIN user.groups : user.groups[i] \in groupsMap

UserInRoles(user, envRoles) ==
    \E i \in DOMAIN user.assumeRoles :
        \E j \in DOMAIN envRoles : envRoles[j].name = user.assumeRoles[i]

UserInEnv(s, user) ==
    IF s = "prod"
    THEN user.environment = "prod" \/ user.environment = "all"
    ELSE user.tagEnv = GroupEnv(s) \/ user.tagEnv = "all"

UsersForEnvNoRoleMatch(s, table, groupsMap, envGroupsConfig, envRoles) ==
    \* faulty variant: the role-assignment predicate is missing
    SelectSeq(table, LAMBDA user :
        \/ UserInGroups(s, user, groupsMap, envGroupsConfig)
        \/ UserInEnv(s, user))

UsersForEnvPerPredicate(s, table, groupsMap, envGroupsConfig, envRoles) ==
    \* faulty variant: one pass per inclusion predicate, the passes concatenated
    SelectSeq(table, LAMBDA user : UserInGroups(s, user, groupsMap, envGroupsConfig))
    \o SelectSeq(table, LAMBDA user : UserInRoles(user, envRoles))
    \o SelectSeq(table, LAMBDA user : UserInEnv(s, user))

UsersForEnv(s, table, groupsMap, envGroupsConfig, envRoles) ==
    SelectSeq(table, LAMBDA user :
        \/ UserInGroups(s, user, groupsMap, envGroupsConfig)
        \/ UserInRoles(user, envRoles)
        \/ UserInEnv(s, user))

-----------------------------------------------------------------------------
(* Resource wiring engine *)

ReadOnlyAccess == "arn:aws:iam::aws:policy/ReadOnlyAccess"

GroupPolicyArns(s, groupName, envPolicyMap) ==
    \* dev stack, current version: attachments chosen by group name
    IF s # "dev" THEN <<>>
    ELSE CASE groupName = "sandbox1-limited" ->
                  IF "sandbox-environments-access" \in envPolicyMap
                  THEN <<PolicyArn("sandbox-environments-access")>> ELSE <<>>
           [] groupName = "dev-developers" ->
                  (IF "sandbox1-full-access" \in envPolicyMap
                   THEN <<PolicyArn("sandbox1-full-access")>> ELSE <<>>)
                  \o <<ReadOnlyAccess>>
           [] groupName = "org-everyone" -> <<ReadOnlyAccess>>
           [] OTHER -> <<>>

createIamGroup(name, managedPolicyArns) ==
    <<Res("aws:iam:Group", name, "", <<>>, "", NoTag, NoTag, {})>>
    \o [i \in DOMAIN managedPolicyArns |->
          Res("aws:iam:GroupPolicyAttachment",
              name \o "-attach-" \o LastSegment(managedPolicyArns[i]),
              name, <<managedPolicyArns[i]>>, "", NoTag, NoTag,
              {<<"aws:iam:Group", name>>})]

CreateRoleAttachFirstOnly(s, roleConfig) ==
    \* faulty variant: only the first policy ARN is attached
    <<Res("aws:iam:Role", roleConfig.name, "", <<>>, "trust:PrincipalType=User",
          EnvironmentName(s), "pulumi", {})>>
    \o [i \in DOMAIN roleConfig.policyArns \cap {1} |->
          Res("aws:iam:RolePolicyAttachment",
              roleConfig.name \o "-policy-" \o ToString(i - 1),
              roleConfig.name, <<roleConfig.policyArns[i]>>, "", NoTag, NoTag,
              {<<"aws:iam:Role", roleConfig.name>>})]

CreateRoleTrustFromConfig(s, roleConfig) ==
    \* faulty variant: the trust document is configured per role
    <<Res("aws:iam:Role", roleConfig.name, "", <<>>, "trust:" \o roleConfig.name,
          EnvironmentName(s), "pulumi", {})>>
    \o [i \in DOMAIN roleConfig.policyArns |->
          Res("aws:iam:RolePolicyAttachment",
              roleConfig.name \o "-policy-" \o ToString(i - 1),
              roleConfig.name, <<roleConfig.policyArns[i]>>, "", NoTag, NoTag,
              {<<"aws:iam:Role", roleConfig.name>>})]

CreateRole(s, roleConfig) ==
    <<Res("aws:iam:Role", roleConfig.name, "", <<>>, "trust:PrincipalType=User",
          EnvironmentName(s), "pulumi", {})>>
    \o [i \in DOMAIN roleConfig.policyArns |->
          Res("aws:iam:RolePolicyAttachment",
              roleConfig.name \o "-policy-" \o ToString(i - 1),
              roleConfig.name, <<roleConfig.policyArns[i]>>, "", NoTag, NoTag,
              {<<"aws:iam:Role", roleConfig.name>>})]

UserEnvGroups(s, user, groupsMap, envGroupsConfig) ==
    IF s = "prod"
    THEN SelectSeq(user.groups, LAMBDA g :
             \E j \in DOMAIN envGroupsConfig : envGroupsConfig[j].name = g)
    ELSE SelectSeq(user.groups, LAMBDA g : g \in groupsMap)

WireGroups(s, user, groupsMap, envGroupsConfig) ==
    LET userGroups == UserEnvGroups(s, user, groupsMap, envGroupsConfig)
    IN  IF Len(userGroups) > 0
        THEN <<Res("aws:iam:UserGroupMembership", user.username \o "-groups",
                   user.username, userGroups, "", NoTag, NoTag,
                   {<<"aws:iam:User", user.username>>}
                     \cup (IF s = "dev"
                           THEN {<<"aws:iam:Group", g>> : g \in Range(userGroups)}
                           ELSE {}))>>
        ELSE <<>>

WireManagedPoliciesFirstOnly(user, managedMap) ==
    \* faulty variant: only the first direct reference is wired
    Flatten([i \in DOMAIN user.managedPolicies \cap {1} |->
        LET policyName == user.managedPolicies[i]
        IN  IF policyName \in managedMap
            THEN <<Res("aws:iam:UserPolicyAttachment",
                       user.username \o "-" \o policyName, user.username,
                       <<PolicyArn(policyName)>>, "", NoTag, NoTag, {})>>
            ELSE <<>>])

WireManagedPolicies(user, managedMap) ==
    Flatten([i \in DOMAIN user.managedPolicies |->
        LET policyName == user.managedPolicies[i]
        IN  IF policyName \in managedMap
            THEN <<Res("aws:iam:UserPolicyAttachment",
                       user.username \o "-" \o policyName, user.username,
                       <<PolicyArn(policyName)>>, "", NoTag, NoTag,
                       {<<"aws:iam:User", user.username>>,
                        <<"aws:iam:Policy", policyName>>})>>
            ELSE <<>>])

RolesToAssumeAllOrNothing(user, envRoles) ==
    \* faulty variant: one unresolved role name drops every assume-role grant of the user
    IF \A i \in DOMAIN user.assumeRoles :
           \E j \in DOMAIN envRoles : envRoles[j].name = user.assumeRoles[i]
    THEN user.assumeRoles
    ELSE <<>>

RolesToAssumeEveryStackRole(user, envRoles) ==
    \* faulty variant: a user with any role assignment is granted every role of the stack
    IF user.assumeRoles = <<>> THEN <<>>
    ELSE [j \in DOMAIN envRoles |-> envRoles[j].name]

RolesToAssume(user, envRoles) ==
    SelectSeq(user.assumeRoles, LAMBDA r :
        \E j \in DOMAIN envRoles : envRoles[j].name = r)

AssumePolicyNamePerRun(username, roleName) ==
    \* faulty variant: the name carries the number of the evaluation
    username \o "-assume-" \o roleName \o "-policy-" \o (IF run = 1 THEN "a" ELSE "b")

AssumePolicyName(username, roleName) ==
    username \o "-assume-" \o roleName \o "-policy"

WireAssumeRolesUnchecked(user, envRoles, rolesMap) ==
    \* faulty variant: neither the filter nor the lookup guards the reference
    Flatten([i \in DOMAIN user.assumeRoles |->
        createIamPolicy(AssumePolicyName(user.username, user.assumeRoles[i]),
                        NoTag, "Allow:sts:AssumeRole",
                        <<RoleArn(user.assumeRoles[i])>>, {})])

WireAssumeRoles(user, envRoles, rolesMap) ==
    LET toAssume == RolesToAssume(user, envRoles)
    IN  Flatten([i \in DOMAIN toAssume |->
            LET roleName == toAssume[i]
            IN  IF roleName \in rolesMap
                THEN createIamPolicy(AssumePolicyName(user.username, roleName),
                                     NoTag, "Allow:sts:AssumeRole",
                                     <<RoleArn(roleName)>>,
                                     {<<"aws:iam:Role", roleName>>})
                     \o <<Res("aws:iam:UserPolicyAttachment",
                              user.username \o "-assume-" \o roleName,
                              user.username,
                              <<PolicyArn(AssumePolicyName(user.username, roleName))>>,
                              "", NoTag, NoTag,
                              {<<"aws:iam:User", user.username>>,
                               <<"aws:iam:Policy",
                                 AssumePolicyName(user.username, roleName)>>})>>
                ELSE <<>>])

WireUserResources(s, user, groupsMap, envGroupsConfig, managedMap, envRoles, rolesMap) ==
    <<Res("aws:iam:User", user.username, "", <<>>, "", UserEnvTag(s), "pulumi", {})>>
    \o WireGroups(s, user, groupsMap, envGroupsConfig)
    \o WireManagedPolicies(user, managedMap)
    \o WireAssumeRoles(user, envRoles, rolesMap)

-----------------------------------------------------------------------------
(* Configuration tables.  The programs compare an environment only with    *)
(* two literals (their own and "all"), so for a given stack a table draws  *)
(* environments from: its own, "all", and one other.  Tables have distinct *)
(* record names; a reference list has at most MaxRefs entries; the whole   *)
(* configuration has at most MaxConfigSize records and references.         *)

OtherEnv(s) == IF s = "prod" THEN "dev" ELSE "prod"

EnvsOf(s) == {GroupEnv(s), "all", OtherEnv(s)}

KeysOf(s) ==
    CASE s = "dev1" -> {"development", "dev", "all"}
      [] s = "dev" -> {"dev", "development", "all"}
      [] s = "staging" -> {"staging", "prod", "all"}
      [] OTHER -> {"production", "prod", "all"}

GroupTables(s) ==
    LET recs == [name : GroupNames, environment : EnvsOf(s)]
    IN  {t \in SeqsUpTo(recs, Cardinality(GroupNames)) :
            NoDup(MapSeq(t, LAMBDA g : g.name))}

RoleRecs == [name : RoleNames, policyArns : SeqsUpTo(ArnPool, MaxRefs)]

RoleSize(r) == 1 + Len(r.policyArns)

RECURSIVE SumSeq(_)
SumSeq(s) == IF s = <<>> THEN 0 ELSE Head(s) + SumSeq(Tail(s))

PlacementsSize(placements) == SumSeq(MapSeq(placements, LAMBDA p : RoleSize(p[2])))

RoleTableOf(placements) ==
    [k \in RoleKeys |->
        LET mine == SelectSeq(placements, LAMBDA p : p[1] = k)
        IN  [i \in DOMAIN mine |-> mine[i][2]]]

RolePlacements(s) ==
    {q \in SeqsUpTo(KeysOf(s) \X RoleRecs, Cardinality(RoleNames)) :
        /\ \A i, j \in DOMAIN q : (i # j /\ q[i][1] = q[j][1]) => q[i][2].name # q[j][2].name
        /\ PlacementsSize(q) <= MaxConfigSize}

RoleTables(s) ==
    {[table |-> RoleTableOf(q), size |-> PlacementsSize(q)] : q \in RolePlacements(s)}

PolicyTables ==
    [managedPolicies : SeqsUpTo(ManagedPolicyNames, 1),
     envPolicies : SeqsUpTo(EnvPolicyNames, 1)]

PolicyTableSize(t) == Len(t.managedPolicies) + Len(t.envPolicies)

UserEnvPairs(s) ==
    {<<NoTag, NoTag>>, <<GroupEnv(s), GroupEnv(s)>>, <<"all", "all">>,
     <<OtherEnv(s), "all">>}

UserShapes ==
    [groups : SeqsUpTo(GroupNames, MaxRefs),
     assumeRoles : SeqsUpTo(RoleRefs, MaxRefs),
     managedPolicies : SeqsUpTo(PolicyRefs, MaxRefs)]

UserSize(u) == 1 + Len(u.groups) + Len(u.assumeRoles) + Len(u.managedPolicies)

ShapesUpTo == [n \in 0..MaxConfigSize |-> {x \in UserShapes : UserSize(x) <= n}]

UserRecs(s, name, n) ==
    IF n < 1 THEN {}
    ELSE {[username |-> name, groups |-> sh.groups, assumeRoles |-> sh.assumeRoles,
           managedPolicies |-> sh.managedPolicies,
           environment |-> ep[1], tagEnv |-> ep[2]] :
             sh \in ShapesUpTo[n], ep \in UserEnvPairs(s)}

UserTables(s, n) ==
    {<<>>} \cup {<<u>> : u \in UserRecs(s, "u1", n)}
           \cup UNION {{<<u, v>> : v \in UserRecs(s, "u2", n - UserSize(u))} :
                          u \in UserRecs(s, "u1", n - 1)}

-----------------------------------------------------------------------------
(* The environment stack program *)

EnvConfigUpTo(n) ==
    \E s \in EnvStacks :
      \E gt \in GroupTables(s) :
        \E rt \in RoleTables(s) :
          \E pt \in PolicyTables :
            LET used == Len(gt) + rt.size + PolicyTableSize(pt)
            IN  /\ used <= n
                /\ \E ut \in UserTables(s, n - used) :
                     /\ stack = s
                     /\ groupsConfig = gt
                     /\ rolesConfig = rt.table
                     /\ policiesConfig = pt
                     /\ usersConfig = ut

EnvStart ==
    /\ pc = "policies"
    /\ outputs = {}
    /\ resources = <<>>
    /\ managedPolicies = {}
    /\ envPolicies = {}
    /\ groups = {}
    /\ roles = {}
    /\ selUsers = <<>>
    /\ ui = 1
    /\ thrown = ""

NoPolicyCalls == factory = "v2" /\ calls = <<>>

NoFoundation ==
    /\ ouConfig = <<>>
    /\ accountsConfig = <<>>
    /\ organizationalUnits = {}
    /\ work = <<>>

NoEngine == applied = {} /\ appliedBefore = {} /\ run = 1 /\ lastDeclared = {}

FoundationApplied == upstream = "applied"

InitEnv ==
    /\ EnvConfigUpTo(MaxConfigSize)
    /\ EnvStart
    /\ NoPolicyCalls
    /\ NoFoundation
    /\ NoEngine
    /\ FoundationApplied

EnvPolicyEnvironment(s) ==
    CASE s = "staging" -> "staging" [] s = "prod" -> "prod" [] OTHER -> "sandbox1"

CreatePolicies ==
    /\ pc = "policies"
    /\ resources' = resources
         \o Flatten([i \in DOMAIN policiesConfig.managedPolicies |->
               createIamPolicy(policiesConfig.managedPolicies[i], NoTag, "config",
                               <<>>, {})])
         \o Flatten([i \in DOMAIN policiesConfig.envPolicies |->
               createIamPolicy(policiesConfig.envPolicies[i],
                               EnvPolicyEnvironment(stack), "config", <<>>, {})])
    /\ managedPolicies' = Range(policiesConfig.managedPolicies)
    /\ envPolicies' = Range(policiesConfig.envPolicies)
    /\ pc' = "groups"
    /\ UNCHANGED <<stack, groupsConfig, rolesConfig, usersConfig, policiesConfig,
                   groups, roles, selUsers, ui, thrown>>
    /\ UNCHANGED <<policyVars, foundationConfigVars, foundationEvalVars, engineVars>>
    /\ UNCHANGED outputs
    /\ UNCHANGED upstream

CreateGroups ==
    /\ pc = "groups"
    /\ LET envGroupsConfig == GroupsForEnv(groupsConfig, GroupEnv(stack))
       IN  /\ resources' = resources
                \o Flatten([i \in DOMAIN envGroupsConfig |->
                      createIamGroup(envGroupsConfig[i].name,
                          GroupPolicyArns(stack, envGroupsConfig[i].name, envPolicies))])
           /\ groups' = Names(envGroupsConfig)
    /\ pc' = "roles"
    /\ UNCHANGED <<stack, groupsConfig, rolesConfig, usersConfig, policiesConfig,
                   managedPolicies, envPolicies, roles, selUsers, ui, thrown>>
    /\ UNCHANGED <<policyVars, foundationConfigVars, foundationEvalVars, engineVars>>
    /\ UNCHANGED outputs
    /\ UNCHANGED upstream

CreateRoles ==
    /\ pc = "roles"
    /\ LET envRoles == RolesForKey(rolesConfig, RoleKey(stack))
       IN  /\ resources' = resources
                \o Flatten([i \in DOMAIN envRoles |-> CreateRole(stack, envRoles[i])])
           /\ roles' = Names(envRoles)
    /\ pc' = "filter"
    /\ UNCHANGED <<stack, groupsConfig, rolesConfig, usersConfig, policiesConfig,
                   managedPolicies, envPolicies, groups, selUsers, ui, thrown>>
    /\ UNCHANGED <<policyVars, foundationConfigVars, foundationEvalVars, engineVars>>
    /\ UNCHANGED outputs
    /\ UNCHANGED upstream

FilterUsers ==
    /\ pc = "filter"
    /\ selUsers' = UsersForEnv(stack, usersConfig, groups,
                               GroupsForEnv(groupsConfig, GroupEnv(stack)),
                               RolesForKey(rolesConfig, RoleKey(stack)))
    /\ ui' = 1
    /\ pc' = "users"
    /\ UNCHANGED <<stack, groupsConfig, rolesConfig, usersConfig, policiesConfig,
                   resources, managedPolicies, envPolicies, groups, roles, thrown>>
    /\ UNCHANGED <<policyVars, foundationConfigVars, foundationEvalVars, engineVars>>
    /\ UNCHANGED outputs
    /\ UNCHANGED upstream

WireUser ==
    /\ pc = "users"
    /\ ui <= Len(selUsers)
    /\ resources' = resources
         \o WireUserResources(stack, selUsers[ui], groups,
                              GroupsForEnv(groupsConfig, GroupEnv(stack)),
                              managedPolicies,
                              RolesForKey(rolesConfig, RoleKey(stack)), roles)
    /\ ui' = ui + 1
    /\ UNCHANGED <<stack, groupsConfig, rolesConfig, usersConfig, policiesConfig, pc,
                   managedPolicies, envPolicies, groups, roles, selUsers, thrown>>
    /\ UNCHANGED <<policyVars, foundationConfigVars, foundationEvalVars, engineVars>>
    /\ UNCHANGED outputs
    /\ UNCHANGED upstream

\* faulty variant: every environment stack writes the dev path
RolesParameterPathOfDev(s) == "/environments/dev/roles"

RolesParameterPath(s) ==
    CASE s = "staging" -> "/environments/staging/roles"
      [] s = "prod" -> "/environments/production/roles"
      [] OTHER -> "/environments/dev/roles"

RolesParameterName(s) ==
    CASE s = "staging" -> "staging-roles" [] s = "prod" -> "production-roles"
      [] OTHER -> "dev-roles"

Persisted(path, fields) == [sink |-> "parameter", key |-> path, fields |-> fields]

Exported(key, fields) == [sink |-> "output", key |-> key, fields |-> fields]

\* the fields of a JSON object built with one entry per key of a Map
EntryFields(map, fields) == IF map = {} THEN {} ELSE fields

RoleFields == {"arn", "name"}

PolicyFields == {"arn", "name"}

OuId(ouName) == "ou-" \o ouName

\* the OU name an environment stack looks up in the foundation's
\* organizationalUnits output
OuLookupKey(s) ==
    CASE s = "dev1" -> "development" [] s = "dev" -> "dev"
      [] s = "staging" -> "staging" [] OTHER -> "production"

\* the exported ouId; NoTag stands for undefined
ExportedOuId(s, ous) ==
    IF upstream = "applied" /\ OuLookupKey(s) \in ous THEN OuId(OuLookupKey(s)) ELSE NoTag

\* an undefined property is absent from the exported object
EnvironmentFields(s, ous) ==
    {"name"} \cup (IF ExportedOuId(s, ous) # NoTag THEN {"ouId"} ELSE {})

\* whether the ouId projection tests the organizationalUnits output before use
GuardsMissingOUs(s) == s = "dev"

Export ==
    /\ pc = "users"
    /\ ui > Len(selUsers)
    /\ resources' = Append(resources,
          Res("aws:ssm:Parameter", RolesParameterName(stack), RolesParameterPath(stack),
              <<>>, "SecureString", NoTag, "Pulumi",
              {<<"aws:iam:Role", r>> : r \in roles}))
    /\ outputs' =
         {Persisted(RolesParameterPath(stack), EntryFields(roles, RoleFields)),
          Exported("environment", EnvironmentFields(stack, organizationalUnits)),
          Exported("roles", EntryFields(roles, RoleFields)),
          Exported("policies.managed", EntryFields(managedPolicies, PolicyFields)),
          Exported("policies.environment", EntryFields(envPolicies, PolicyFields))}
    /\ thrown' = IF upstream = "applied" \/ GuardsMissingOUs(stack)
                 THEN thrown
                 ELSE "TypeError: Cannot read properties of undefined"
    /\ pc' = "done"
    /\ UNCHANGED <<stack, groupsConfig, rolesConfig, usersConfig, policiesConfig,
                   managedPolicies, envPolicies, groups, roles, selUsers, ui>>
    /\ UNCHANGED <<policyVars, foundationConfigVars, foundationEvalVars, engineVars>>
    /\ UNCHANGED upstream

NextEnv ==
    \/ CreatePolicies
    \/ CreateGroups
    \/ CreateRoles
    \/ FilterUsers
    \/ WireUser
    \/ Export

SpecEnv == InitEnv /\ [][NextEnv]_vars

-----------------------------------------------------------------------------
(* The foundation stack program *)

MaxOUs == 3
MaxAccounts == 1

OUNames == {"dev", "prod", "sandbox1"}

AccountOUs == {"dev", "qa"}

AccountNames == {"dev-main"}

OrganizationName == "root-org"

RootId == "r-root"

SiblingsDistinct(forest) ==
    \A i, j \in DOMAIN forest : forest[i].name = forest[j].name => i = j

RECURSIVE Forests(_)

\* every OU forest of exactly n nodes; sibling names are distinct, as the keys
\* of one `children` object are
Forests(n) ==
    IF n = 0 THEN {<<>>}
    ELSE {f \in UNION {{<<[name |-> nm, children |-> c]>> \o rest :
                           nm \in OUNames, c \in Forests(k - 1),
                           rest \in Forests(n - k)} : k \in 1..n} :
            SiblingsDistinct(f)}

RECURSIVE NodesCreated(_)

\* the names of the OUs createOUs creates for a forest
NodesCreated(forest) ==
    Flatten([i \in DOMAIN forest |->
        <<forest[i].name>> \o NodesCreated(forest[i].children)])

OUConfigs == UNION {Forests(n) : n \in 0..MaxOUs}

AccountConfigs == SeqsUpTo([ou : AccountOUs, name : AccountNames], MaxAccounts)

InitFoundationConfig ==
    /\ stack = "foundation"
    /\ ouConfig \in OUConfigs
    /\ accountsConfig \in AccountConfigs
    /\ groupsConfig = <<>> /\ rolesConfig = <<>> /\ usersConfig = <<>>
    /\ policiesConfig = <<>>

FoundationStart ==
    /\ pc = "organization"
    /\ outputs = {}
    /\ resources = <<>>
    /\ organizationalUnits = {}
    /\ work = <<>>
    /\ thrown = ""
    /\ managedPolicies = {} /\ envPolicies = {} /\ groups = {} /\ roles = {}
    /\ selUsers = <<>> /\ ui = 1

InitFoundation ==
    /\ InitFoundationConfig
    /\ FoundationStart
    /\ NoPolicyCalls
    /\ NoEngine
    /\ FoundationApplied

Frames(ouDefs, parentId) ==
    [i \in DOMAIN ouDefs |-> [ouDef |-> ouDefs[i], parentId |-> parentId]]

createOrganizationalUnit(name, parentId) ==
    Res("aws:organizations:OrganizationalUnit", name, "", <<parentId>>, "", name,
        "Pulumi", {})

CreateOrganization ==
    /\ pc = "organization"
    /\ resources' = Append(resources,
          Res("aws:organizations:Organization", OrganizationName, "", <<>>, "ALL",
              NoTag, NoTag, {}))
    /\ work' = Frames(ouConfig, RootId)
    /\ pc' = IF ouConfig = <<>> THEN "scps" ELSE "ous"
    /\ UNCHANGED <<stack, thrown, organizationalUnits, envConfigVars, envEvalVars,
                   policyVars, foundationConfigVars, engineVars>>
    /\ UNCHANGED outputs
    /\ UNCHANGED upstream

createOUs ==
    /\ pc = "ous"
    /\ work # <<>>
    /\ LET ouDef == Head(work).ouDef
           parentId == Head(work).parentId
       IN  /\ resources' = Append(resources,
                                  createOrganizationalUnit(ouDef.name, parentId))
           /\ organizationalUnits' = organizationalUnits \cup {ouDef.name}
           /\ work' = Frames(ouDef.children, OuId(ouDef.name)) \o Tail(work)
    /\ pc' = IF work' = <<>> THEN "scps" ELSE "ous"
    /\ UNCHANGED <<stack, thrown, envConfigVars, envEvalVars, policyVars,
                   foundationConfigVars, engineVars>>
    /\ UNCHANGED outputs
    /\ UNCHANGED upstream

TargetOf(ouName) ==
    IF ouName \in organizationalUnits THEN OuId(ouName) ELSE NoTag

CreateOrganizationPolicies ==
    /\ pc = "scps"
    /\ LET productionSCP ==
               createPolicy("v2", [type |-> "SERVICE_CONTROL_POLICY",
                                   name |-> "production-scp",
                                   targetId |-> TargetOf("prod"),
                                   environment |-> NoTag])
           sandboxSCP ==
               createPolicy("v2", [type |-> "SERVICE_CONTROL_POLICY",
                                   name |-> "sandbox-scp",
                                   targetId |-> TargetOf("sandbox1"),
                                   environment |-> NoTag])
           resourceTagPolicy ==
               createPolicy("v2", [type |-> "TAG_POLICY",
                                   name |-> "resource-tag-policy",
                                   targetId |-> RootId,
                                   environment |-> NoTag])
       IN  resources' = resources \o productionSCP.declared \o sandboxSCP.declared
                            \o resourceTagPolicy.declared
    /\ pc' = "accounts"
    /\ UNCHANGED <<stack, thrown, envConfigVars, envEvalVars, policyVars,
                   foundationConfigVars, foundationEvalVars, engineVars>>
    /\ UNCHANGED outputs
    /\ UNCHANGED upstream

CreateAccounts ==
    /\ pc = "accounts"
    /\ resources' = resources \o
          [i \in DOMAIN accountsConfig |->
              Res("aws:organizations:Account", accountsConfig[i].name \o "-account",
                  "", <<TargetOf(accountsConfig[i].ou)>>,
                  "OrganizationAccountAccessRole", NoTag, NoTag, {})]
    /\ pc' = "parameters"
    /\ UNCHANGED <<stack, thrown, envConfigVars, envEvalVars, policyVars,
                   foundationConfigVars, foundationEvalVars, engineVars>>
    /\ UNCHANGED outputs
    /\ UNCHANGED upstream

OrganizationFields == {"id", "rootId", "arn"}

\* faulty variant: the account's password is persisted too
AccountDetailFieldsWithPassword == {"id", "arn", "email", "password"}

AccountDetailFields == {"id", "arn", "email"}

OUFields == {"id", "name", "arn"}

StoreOperationalData ==
    /\ pc = "parameters"
    /\ resources' = resources \o
          <<Res("aws:ssm:Parameter", "organization-details", "/organization/details",
                <<>>, "SecureString", NoTag, "Pulumi", {}),
            Res("aws:ssm:Parameter", "account-details", "/organization/accounts",
                <<>>, "SecureString", NoTag, "Pulumi", {})>>
    /\ outputs' =
         {Persisted("/organization/details", OrganizationFields),
          Persisted("/organization/accounts",
                    EntryFields(Range(accountsConfig), AccountDetailFields)),
          Exported("organization", OrganizationFields),
          Exported("organizationalUnits", EntryFields(organizationalUnits, OUFields)),
          Exported("accounts", EntryFields(Range(accountsConfig), {"id", "arn"})),
          Exported("policies", {"arn"})}
    /\ pc' = "done"
    /\ UNCHANGED <<stack, thrown, envConfigVars, envEvalVars, policyVars,
                   foundationConfigVars, foundationEvalVars, engineVars>>
    /\ UNCHANGED upstream

NextFoundation ==
    \/ CreateOrganization
    \/ createOUs
    \/ CreateOrganizationPolicies
    \/ CreateAccounts
    \/ StoreOperationalData

SpecFoundation == InitFoundation /\ [][NextFoundation]_vars

-----------------------------------------------------------------------------
(* A caller of the policy factory: a script of createPolicy calls *)

MaxCalls == 2

PolicyTypeValues ==
    {"IAM", "SERVICE_CONTROL_POLICY", "TAG_POLICY",
     "iam", "scp", "tag", "permission_boundary", "PERMISSION_BOUNDARY"}

PolicyOptions ==
    [type : PolicyTypeValues, name : {"p1", "p2"}, targetId : {NoTag, "r-root"},
     environment : {NoTag}]

InitPolicy ==
    /\ factory \in {"v1", "v2"}
    /\ calls \in SeqsUpTo(PolicyOptions, MaxCalls) \ {<<>>}
    /\ stack = "factory"
    /\ pc = "calls"
    /\ outputs = {}
    /\ resources = <<>>
    /\ thrown = ""
    /\ groupsConfig = <<>> /\ rolesConfig = <<>> /\ usersConfig = <<>>
    /\ policiesConfig = <<>>
    /\ managedPolicies = {} /\ envPolicies = {} /\ groups = {} /\ roles = {}
    /\ selUsers = <<>> /\ ui = 1
    /\ NoFoundation
    /\ NoEngine
    /\ FoundationApplied

CallCreatePolicy ==
    /\ pc = "calls"
    /\ thrown = ""
    /\ calls # <<>>
    /\ LET result == createPolicy(factory, Head(calls))
       IN  /\ resources' = resources \o result.declared
           /\ thrown' = result.thrown
    /\ calls' = Tail(calls)
    /\ UNCHANGED <<stack, pc, factory, envConfigVars, envEvalVars,
                   foundationConfigVars, foundationEvalVars, engineVars>>
    /\ UNCHANGED outputs
    /\ UNCHANGED upstream

NextPolicy == CallCreatePolicy

SpecPolicy == InitPolicy /\ [][NextPolicy]_vars

-----------------------------------------------------------------------------
(* A caller of the group factory: a script of createIamGroup calls, one per *)
(* group, each with its own managedPolicyArns list                          *)

GroupArnPool ==
    {ReadOnlyAccess, "arn:aws:iam::123456789012:policy/ReadOnlyAccess",
     PolicyArn("sandbox1-full-access")}

GroupCalls ==
    {c \in SeqsUpTo([name : GroupNames, managedPolicyArns : SeqsUpTo(GroupArnPool, MaxRefs)],
                    MaxCalls) :
        c # <<>> /\ NoDup(MapSeq(c, LAMBDA g : g.name))}

InitGroup ==
    /\ calls \in GroupCalls
    /\ factory = "v2"
    /\ stack = "group-factory"
    /\ pc = "group-calls"
    /\ outputs = {}
    /\ resources = <<>>
    /\ thrown = ""
    /\ groupsConfig = <<>> /\ rolesConfig = <<>> /\ usersConfig = <<>>
    /\ policiesConfig = <<>>
    /\ managedPolicies = {} /\ envPolicies = {} /\ groups = {} /\ roles = {}
    /\ selUsers = <<>> /\ ui = 1
    /\ NoFoundation
    /\ NoEngine
    /\ FoundationApplied

CallCreateIamGroup ==
    /\ pc = "group-calls"
    /\ ui <= Len(calls)
    /\ resources' = resources \o createIamGroup(calls[ui].name, calls[ui].managedPolicyArns)
    /\ groups' = groups \cup {calls[ui].name}
    /\ ui' = ui + 1
    /\ UNCHANGED <<stack, pc, thrown, policyVars, envConfigVars, managedPolicies,
                   envPolicies, roles, selUsers, foundationConfigVars,
                   foundationEvalVars, engineVars>>
    /\ UNCHANGED outputs
    /\ UNCHANGED upstream

NextGroup == CallCreateIamGroup

SpecGroup == InitGroup /\ [][NextGroup]_vars

-----------------------------------------------------------------------------
(* Repeated `pulumi up`: the engine creates what a finished evaluation      *)
(* declared and does not yet exist; a later `pulumi up` evaluates the same  *)
(* program over the same configuration again, whether or not the previous   *)
(* apply had finished.                                                      *)

MaxRuns == 2
MaxReapplySize == 3

Urn(r) == <<r.type, r.name>>

DeclaredUrns == {Urn(resources[i]) : i \in DOMAIN resources}

InitReapply ==
    /\ \/ EnvConfigUpTo(MaxReapplySize) /\ EnvStart /\ NoFoundation
       \/ InitFoundationConfig /\ FoundationStart
    /\ NoPolicyCalls
    /\ NoEngine
    /\ FoundationApplied

ApplyNext ==
    /\ pc = "done"
    /\ \E i \in DOMAIN resources :
         /\ Urn(resources[i]) \notin applied
         /\ \A j \in 1..(i - 1) : Urn(resources[j]) \in applied
         /\ applied' = applied \cup {Urn(resources[i])}
    /\ UNCHANGED <<envVars, policyVars, foundationConfigVars, foundationEvalVars,
                   appliedBefore, run, lastDeclared>>
    /\ UNCHANGED outputs
    /\ UNCHANGED upstream

Rerun ==
    /\ pc = "done"
    /\ run < MaxRuns
    /\ run' = run + 1
    /\ lastDeclared' = DeclaredUrns
    /\ appliedBefore' = applied
    /\ pc' = IF stack = "foundation" THEN "organization" ELSE "policies"
    /\ resources' = <<>>
    /\ managedPolicies' = {} /\ envPolicies' = {} /\ groups' = {} /\ roles' = {}
    /\ selUsers' = <<>> /\ ui' = 1
    /\ organizationalUnits' = {} /\ work' = <<>>
    /\ outputs' = {}
    /\ UNCHANGED <<stack, thrown, envConfigVars, policyVars, foundationConfigVars,
                   applied>>
    /\ UNCHANGED upstream

NextReapply ==
    \/ NextEnv
    \/ NextFoundation
    \/ ApplyNext
    \/ Rerun

SpecReapply == InitReapply /\ [][NextReapply]_vars

-----------------------------------------------------------------------------
(* Two environment stacks of one project, evaluated over the same           *)
(* configuration tables and applied to the same AWS organization            *)

MaxParallelSize == 3

ExplicitlyNamed == {"aws:iam:User", "aws:iam:Role"}

\* the names a stack asks AWS for: users and roles pass `name`, parameters
\* their path; every other resource is auto-named by the engine per stack
PhysicalNames(rs) ==
    {<<rs[i].type, IF rs[i].type = "aws:ssm:Parameter" THEN rs[i].owner ELSE rs[i].name>> :
        i \in {j \in DOMAIN rs : rs[j].type \in ExplicitlyNamed \cup {"aws:ssm:Parameter"}}}

SameEnvironment(s1, s2) == GroupEnv(s1) = GroupEnv(s2)

InitParallel ==
    /\ EnvConfigUpTo(MaxParallelSize)
    /\ EnvStart
    /\ NoPolicyCalls
    /\ NoFoundation
    /\ NoEngine
    /\ FoundationApplied

StartOtherStack ==
    /\ pc = "done"
    /\ run = 1
    /\ \E s \in EnvStacks : ~SameEnvironment(s, stack) /\ stack' = s
    /\ run' = 2
    /\ lastDeclared' = PhysicalNames(resources)
    /\ pc' = "policies"
    /\ resources' = <<>>
    /\ managedPolicies' = {} /\ envPolicies' = {} /\ groups' = {} /\ roles' = {}
    /\ selUsers' = <<>> /\ ui' = 1
    /\ outputs' = {}
    /\ UNCHANGED <<thrown, envConfigVars, policyVars, foundationConfigVars,
                   foundationEvalVars, applied, appliedBefore>>
    /\ UNCHANGED upstream

NextParallel ==
    \/ NextEnv
    \/ StartOtherStack

SpecParallel == InitParallel /\ [][NextParallel]_vars

-----------------------------------------------------------------------------
(* A caller of the role factories: a script of createIamRole and            *)
(* createGoogleSSOProvider calls; the programs under stacks/ call neither   *)

UserTrustDocument == "trust:PrincipalType=User"

TrustDocuments == {UserTrustDocument, "trust:Service=ec2", "trust:Federated=google"}

InlinePolicyNames == {"inline1"}

RoleFactoryOptions ==
    [factory : {"createIamRole"}, name : {"role"},
     assumeRolePolicy : TrustDocuments,
     managedPolicyArns : SeqsUpTo(ArnPool, 1),
     inlinePolicies : SeqsUpTo(InlinePolicyNames, 1)]
    \cup
    [factory : {"createGoogleSSOProvider"}, name : {"google"},
     assumeRolePolicy : TrustDocuments \cup {NoTag},
     managedPolicyArns : SeqsUpTo(ArnPool, 1),
     inlinePolicies : {<<>>}]

createIamRole(options) ==
    <<Res("aws:iam:Role", "role", "", <<>>, options.assumeRolePolicy, NoTag, NoTag, {})>>
    \o [i \in DOMAIN options.managedPolicyArns |->
          Res("aws:iam:RolePolicyAttachment",
              "role-attach-" \o LastSegment(options.managedPolicyArns[i]),
              "role", <<options.managedPolicyArns[i]>>, "", NoTag, NoTag,
              {<<"aws:iam:Role", "role">>})]
    \o [i \in DOMAIN options.inlinePolicies |->
          Res("aws:iam:RolePolicy", "role-inline-" \o options.inlinePolicies[i],
              "role", <<>>, "inline", NoTag, NoTag, {<<"aws:iam:Role", "role">>})]

\* assumeRoleArn is the first entry of managedPolicyArns, when there is one
createGoogleSSOProvider(options) ==
    <<Res("aws:iam:OpenIdConnectProvider", options.name, "", <<>>,
          "https://accounts.google.com", NoTag, "pulumi", {})>>
    \o (IF options.assumeRolePolicy # NoTag
        THEN <<Res("aws:iam:Role", options.name \o "-role", "", <<>>,
                   options.assumeRolePolicy, NoTag, "pulumi", {})>>
             \o [i \in DOMAIN options.managedPolicyArns |->
                   Res("aws:iam:RolePolicyAttachment",
                       options.name \o "-policy-attachment", options.name \o "-role",
                       <<options.managedPolicyArns[i]>>, "", NoTag, NoTag,
                       {<<"aws:iam:Role", options.name \o "-role">>})]
        ELSE <<>>)

InitRole ==
    /\ \/ /\ EnvConfigUpTo(MaxParallelSize)
          /\ EnvStart
          /\ calls = <<>>
       \/ /\ calls \in SeqsUpTo(RoleFactoryOptions, MaxCalls) \ {<<>>}
          /\ stack = "role-factory"
          /\ pc = "role-calls"
          /\ outputs = {}
          /\ resources = <<>>
          /\ thrown = ""
          /\ groupsConfig = <<>> /\ rolesConfig = <<>> /\ usersConfig = <<>>
          /\ policiesConfig = <<>>
          /\ managedPolicies = {} /\ envPolicies = {} /\ groups = {} /\ roles = {}
          /\ selUsers = <<>> /\ ui = 1
    /\ factory = "v2"
    /\ NoFoundation
    /\ NoEngine
    /\ FoundationApplied

CallRoleFactory ==
    /\ pc = "role-calls"
    /\ ui <= Len(calls)
    /\ resources' = resources \o
          (IF calls[ui].factory = "createIamRole"
           THEN createIamRole(calls[ui])
           ELSE createGoogleSSOProvider(calls[ui]))
    /\ ui' = ui + 1
    /\ UNCHANGED <<stack, pc, thrown, policyVars, envConfigVars, managedPolicies,
                   envPolicies, groups, roles, selUsers, foundationConfigVars,
                   foundationEvalVars, engineVars, outputs, upstream>>

NextRole ==
    \/ NextEnv
    \/ CallRoleFactory

SpecRole == InitRole /\ [][NextRole]_vars

-----------------------------------------------------------------------------
(* An environment stack evaluated against an applied foundation stack whose *)
(* organizationalUnits output lists the OUs of the OU configuration         *)

MaxLookupSize == 1

OUsExported(forest) ==
    LET nodes == NodesCreated(forest) IN {nodes[i] : i \in DOMAIN nodes}

InitLookup ==
    /\ EnvConfigUpTo(MaxLookupSize)
    /\ EnvStart
    /\ ouConfig \in OUConfigs
    /\ organizationalUnits = OUsExported(ouConfig)
    /\ accountsConfig = <<>>
    /\ work = <<>>
    /\ NoPolicyCalls
    /\ NoEngine
    /\ FoundationApplied

NextLookup == NextEnv

SpecLookup == InitLookup /\ [][NextLookup]_vars

-----------------------------------------------------------------------------
(* A caller of createIamPolicy that passes tags: a script of calls to one   *)
(* of the three versions of the function                                    *)

TagKeys == {"User", "Environment", "ManagedBy"}

TagValues == {"dev", "Pulumi"}

CallerTags == UNION {[keys -> TagValues] : keys \in SUBSET TagKeys}

IamPolicyOptions ==
    [name : {"p1"}, tags : CallerTags, environment : {NoTag, "dev", "prod"}]

\* the earliest createIamPolicy passes only the document; the later two build
\* the tags from the caller's tags and options.environment
TaggedIamPolicy(version, options) ==
    IF version = "v0"
    THEN Res("aws:iam:Policy", options.name, "", <<>>, "document", NoTag, NoTag, {})
         @@ [tags |-> EmptyTags]
    ELSE createIamPolicy(options.name, options.environment, "document", <<>>, {})[1]
         @@ [tags |-> IamPolicyTags(options.tags, options.environment)]

InitTags ==
    /\ factory \in {"v0", "v1", "v2"}
    /\ calls \in SeqsUpTo(IamPolicyOptions, MaxCalls) \ {<<>>}
    /\ stack = "policy-factory"
    /\ pc = "tag-calls"
    /\ outputs = {}
    /\ resources = <<>>
    /\ thrown = ""
    /\ groupsConfig = <<>> /\ rolesConfig = <<>> /\ usersConfig = <<>>
    /\ policiesConfig = <<>>
    /\ managedPolicies = {} /\ envPolicies = {} /\ groups = {} /\ roles = {}
    /\ selUsers = <<>> /\ ui = 1
    /\ NoFoundation
    /\ NoEngine
    /\ FoundationApplied

CallCreateIamPolicy ==
    /\ pc = "tag-calls"
    /\ ui <= Len(calls)
    /\ resources' = Append(resources, TaggedIamPolicy(factory, calls[ui]))
    /\ ui' = ui + 1
    /\ UNCHANGED <<stack, pc, thrown, policyVars, envConfigVars, managedPolicies,
                   envPolicies, groups, roles, selUsers, foundationConfigVars,
                   foundationEvalVars, engineVars, outputs, upstream>>

NextTags == CallCreateIamPolicy

SpecTags == InitTags /\ [][NextTags]_vars

-----------------------------------------------------------------------------
(* The provisioning engine applying one evaluated environment stack: it     *)
(* creates independent resources in any order and a resource that consumes  *)
(* an output of another only after that other resource                      *)

InitEngine ==
    /\ EnvConfigUpTo(MaxParallelSize)
    /\ EnvStart
    /\ NoPolicyCalls
    /\ NoFoundation
    /\ NoEngine
    /\ FoundationApplied

\* the declared resources whose outputs r consumes
DependsOn(r) == r.deps \cap DeclaredUrns

CreateResource ==
    /\ pc = "done"
    /\ \E i \in DOMAIN resources :
         /\ Urn(resources[i]) \notin applied
         /\ DependsOn(resources[i]) \subseteq applied
         /\ applied' = applied \cup {Urn(resources[i])}
    /\ UNCHANGED <<envVars, policyVars, foundationConfigVars, foundationEvalVars,
                   appliedBefore, run, lastDeclared, outputs, upstream>>

NextEngine ==
    \/ NextEnv
    \/ CreateResource

SpecEngine == InitEngine /\ [][NextEngine]_vars

-----------------------------------------------------------------------------
(* An environment stack from its first statement: the reference to the      *)
(* foundation stack, which may not exist, may exist without outputs (never  *)
(* applied) or may have been applied                                        *)

UpstreamStates == {"missing", "unapplied", "applied"}

InitReference ==
    /\ EnvConfigUpTo(MaxParallelSize)
    /\ upstream \in UpstreamStates
    /\ pc = "reference"
    /\ outputs = {}
    /\ resources = <<>>
    /\ managedPolicies = {} /\ envPolicies = {} /\ groups = {} /\ roles = {}
    /\ selUsers = <<>> /\ ui = 1
    /\ thrown = ""
    /\ NoPolicyCalls
    /\ NoFoundation
    /\ NoEngine

\* new pulumi.StackReference(...) and three getOutput calls: an unknown stack
\* fails the update; getOutput of an output the stack does not have yields
\* undefined and raises nothing
ReadFoundation ==
    /\ pc = "reference"
    /\ IF upstream = "missing"
       THEN thrown' = "ReferenceNotFound: unknown stack" /\ pc' = "failed"
       ELSE thrown' = thrown /\ pc' = "policies"
    /\ UNCHANGED <<stack, resources, envConfigVars, envEvalVars, policyVars,
                   foundationConfigVars, foundationEvalVars, engineVars, outputs,
                   upstream>>

NextReference ==
    \/ ReadFoundation
    \/ NextEnv

SpecReference == InitReference /\ [][NextReference]_vars

-----------------------------------------------------------------------------
(* Properties of the environment stacks *)

ResNames(type) == {resources[i].name : i \in {j \in DOMAIN resources : resources[j].type = type}}

AfterGroups == pc \in {"roles", "filter", "users", "done"}

AfterRoles == pc \in {"filter", "users", "done"}

Done == pc = "done"

UserDeclared(user) == Declared(resources, "aws:iam:User", user.username) # {}

\* C1: in each environment stack the IAM groups created are exactly the group
\* records whose environment is the stack's tag or "all".
C1_GroupsAreEnvOrAll ==
    AfterGroups =>
        ResNames("aws:iam:Group") =
            {groupsConfig[i].name : i \in {j \in DOMAIN groupsConfig :
                groupsConfig[j].environment \in {GroupEnv(stack), "all"}}}

C1_Witness ==
    /\ Done
    /\ \E i, j \in DOMAIN groupsConfig :
         /\ groupsConfig[i].environment = "all"
         /\ groupsConfig[i].name \in ResNames("aws:iam:Group")
         /\ groupsConfig[j].environment = OtherEnv(stack)
         /\ groupsConfig[j].name \notin ResNames("aws:iam:Group")

MatchedGroups(user) == Range(user.groups) \cap ResNames("aws:iam:Group")

Memberships(user) ==
    {i \in DOMAIN resources :
        /\ resources[i].type = "aws:iam:UserGroupMembership"
        /\ resources[i].owner = user.username}

\* C3: every selected user with at least one matched group gets exactly one
\* group-membership edge, which lists each matched group exactly once.
C3_OneMembershipListingEachGroupOnce ==
    Done =>
        \A k \in DOMAIN selUsers :
            LET user == selUsers[k]
            IN  MatchedGroups(user) # {} =>
                  /\ Cardinality(Memberships(user)) = 1
                  /\ \A i \in Memberships(user) :
                        /\ Range(resources[i].refs) = MatchedGroups(user)
                        /\ NoDup(resources[i].refs)

\* C4: a (user, role) pair whose role the stack did not select gets no
\* assume-role policy and no attachment, and nothing is thrown.
C4_UnselectedRoleCreatesNothing ==
    /\ thrown = ""
    /\ Done =>
         \A k \in DOMAIN usersConfig : \A r \in Range(usersConfig[k].assumeRoles) :
             r \notin Names(rolesConfig[RoleKey(stack)]) =>
                /\ Declared(resources, "aws:iam:Policy",
                            usersConfig[k].username \o "-assume-" \o r \o "-policy") = {}
                /\ Declared(resources, "aws:iam:UserPolicyAttachment",
                            usersConfig[k].username \o "-assume-" \o r) = {}
                /\ \A i \in DOMAIN resources :
                      resources[i].type = "aws:iam:Policy" => RoleArn(r) \notin Range(resources[i].refs)

C4_Witness ==
    /\ Done
    /\ thrown = ""
    /\ \E k \in DOMAIN selUsers :
         /\ "ghost-role" \in Range(selUsers[k].assumeRoles)
         /\ \E r \in Range(selUsers[k].assumeRoles) :
               /\ r \notin Names(rolesConfig[RoleKey(stack)])
               /\ \E key \in RoleKeys : r \in Names(rolesConfig[key])

\* C5: for every selected user U and every role R of U.assumeRoles that the
\* stack created there is exactly one policy U-assume-R-policy, allowing
\* sts:AssumeRole on R's ARN only, and exactly one attachment of it to U.
C5_ExactlyOneAssumePolicyPerPair ==
    Done =>
        \A k \in DOMAIN selUsers :
            \A r \in Range(selUsers[k].assumeRoles) \cap ResNames("aws:iam:Role") :
                LET u == selUsers[k].username
                    pol == Declared(resources, "aws:iam:Policy", u \o "-assume-" \o r \o "-policy")
                    att == Declared(resources, "aws:iam:UserPolicyAttachment", u \o "-assume-" \o r)
                IN  /\ Cardinality(pol) = 1
                    /\ \A i \in pol : /\ resources[i].doc = "Allow:sts:AssumeRole"
                                      /\ resources[i].refs = <<RoleArn(r)>>
                    /\ Cardinality(att) = 1
                    /\ \A i \in att : /\ resources[i].owner = u
                                      /\ resources[i].refs =
                                           <<PolicyArn(u \o "-assume-" \o r \o "-policy")>>

EdgesOfResolvedReferences(user) ==
    /\ UserDeclared(user)
    /\ \A g \in MatchedGroups(user) :
          \E i \in Memberships(user) : g \in Range(resources[i].refs)
    /\ \A p \in Range(user.managedPolicies) \cap managedPolicies :
          \E i \in Declared(resources, "aws:iam:UserPolicyAttachment",
                            user.username \o "-" \o p) :
              resources[i].owner = user.username /\ resources[i].refs = <<PolicyArn(p)>>
    /\ \A r \in Range(user.assumeRoles) \cap ResNames("aws:iam:Role") :
          /\ Declared(resources, "aws:iam:Policy",
                      user.username \o "-assume-" \o r \o "-policy") # {}
          /\ Declared(resources, "aws:iam:UserPolicyAttachment",
                      user.username \o "-assume-" \o r) # {}

NoEdgeOfMissingReference(user) ==
    /\ \A i \in Memberships(user) : Range(resources[i].refs) \subseteq ResNames("aws:iam:Group")
    /\ \A p \in Range(user.managedPolicies) \ managedPolicies :
          Declared(resources, "aws:iam:UserPolicyAttachment", user.username \o "-" \o p) = {}
    /\ \A r \in Range(user.assumeRoles) \ ResNames("aws:iam:Role") :
          Declared(resources, "aws:iam:UserPolicyAttachment",
                   user.username \o "-assume-" \o r) = {}

\* C8: a reference of a selected user to a group, managed policy or role that
\* the stack did not resolve throws nothing and drops that one edge only: every
\* edge of a resolved reference, of this user and of every other selected
\* user, is still created.
C8_MissingReferenceSkipsOnlyThatEdge ==
    /\ thrown = ""
    /\ Done =>
         \A k \in DOMAIN selUsers :
             /\ EdgesOfResolvedReferences(selUsers[k])
             /\ NoEdgeOfMissingReference(selUsers[k])

C8_Witness ==
    /\ Done
    /\ \E k \in DOMAIN selUsers :
         /\ Range(selUsers[k].assumeRoles) \ ResNames("aws:iam:Role") # {}
         /\ Range(selUsers[k].assumeRoles) \cap ResNames("aws:iam:Role") # {}
         /\ EdgesOfResolvedReferences(selUsers[k])
         /\ NoEdgeOfMissingReference(selUsers[k])

\* C10 (as stated): the roles created are exactly the role records whose
\* environment - the key they are listed under - is the stack's tag or "all".
C10_RolesAreEnvOrAll ==
    AfterRoles =>
        ResNames("aws:iam:Role") =
            UNION {Names(rolesConfig[key]) : key \in {GroupEnv(stack), "all"}}

\* C10 (amended): the roles created are exactly the records listed under the
\* stack's own role key; a record listed only under "all" or under any other
\* key is not created.
C10_RolesAreThoseOfTheStackKey ==
    AfterRoles =>
        /\ ResNames("aws:iam:Role") = Names(rolesConfig[RoleKey(stack)])
        /\ \A key \in RoleKeys \ {RoleKey(stack)} :
              \A r \in Names(rolesConfig[key]) \ Names(rolesConfig[RoleKey(stack)]) :
                  Declared(resources, "aws:iam:Role", r) = {}

C10_Witness ==
    /\ Done
    /\ Names(rolesConfig["all"]) \ ResNames("aws:iam:Role") # {}
    /\ ResNames("aws:iam:Role") # {}

-----------------------------------------------------------------------------
(* Properties of the policy factory *)

Recognised(version) ==
    IF version = "v1" THEN {"iam", "scp", "tag", "permission_boundary"}
    ELSE {"IAM", "SERVICE_CONTROL_POLICY", "TAG_POLICY"}

KindOf(type) ==
    CASE type \in {"iam", "IAM"} -> "iam"
      [] type \in {"scp", "SERVICE_CONTROL_POLICY"} -> "service-control"
      [] type \in {"tag", "TAG_POLICY"} -> "tag"
      [] OTHER -> "permission-boundary"

DeclaredByCall == SubSeq(resources', Len(resources) + 1, Len(resources'))

\* C9: a createPolicy call with an unrecognised type throws 'Unsupported policy
\* type' and declares nothing; a call with a recognised type throws nothing and
\* declares exactly the resources of that kind's constructor: an IAM policy for
\* IAM, an organizations policy of type SERVICE_CONTROL_POLICY with its
\* attachment for service-control, an organizations policy of type TAG_POLICY
\* for tag.
C9_UnknownTypeThrowsKnownTypeDispatches ==
    [][calls' # calls =>
        LET o == Head(calls)
            first == DeclaredByCall[1]
        IN  IF o.type \notin Recognised(factory)
            THEN /\ thrown' = "Unsupported policy type: " \o o.type
                 /\ resources' = resources
            ELSE /\ thrown' = ""
                 /\ first.name = o.name
                 /\ CASE KindOf(o.type) = "iam" ->
                           /\ Len(DeclaredByCall) = 1
                           /\ first.type = "aws:iam:Policy"
                           /\ first.env = "default"
                      [] KindOf(o.type) = "service-control" ->
                           /\ Len(DeclaredByCall) = 2
                           /\ first.type = "aws:organizations:Policy"
                           /\ first.doc = "SERVICE_CONTROL_POLICY"
                           /\ DeclaredByCall[2].type = "aws:organizations:PolicyAttachment"
                      [] KindOf(o.type) = "tag" ->
                           /\ first.type = "aws:organizations:Policy"
                           /\ first.doc = "TAG_POLICY"
                      [] OTHER ->
                           /\ Len(DeclaredByCall) = 1
                           /\ first.type = "aws:iam:Policy"
                           /\ first.doc = "PermissionBoundary"]_vars

C9_Witness ==
    /\ stack = "factory"
    /\ thrown = "Unsupported policy type: PERMISSION_BOUNDARY"
    /\ Len(resources) = 2
    /\ resources[1].doc = "SERVICE_CONTROL_POLICY"

-----------------------------------------------------------------------------
(* Properties of the foundation stack *)

AfterOUs == stack = "foundation" /\ pc \notin {"organization", "ous"}

OUDeclarations ==
    SelectSeq(resources, LAMBDA r : r.type = "aws:organizations:OrganizationalUnit")

RECURSIVE NodesOf(_, _)

\* the nodes of a forest in the order createOUs visits them, each with the id
\* its parent node's OU has
NodesOf(forest, parentId) ==
    Flatten([i \in DOMAIN forest |->
        <<[name |-> forest[i].name, parentId |-> parentId]>>
        \o NodesOf(forest[i].children, OuId(forest[i].name))])

ParentIds(ouName) ==
    {OUDeclarations[i].refs[1] :
        i \in {j \in DOMAIN OUDeclarations : OUDeclarations[j].name = ouName}}

RECURSIVE ReachesRoot(_, _)

ReachesRoot(id, fuel) ==
    \/ id = RootId
    \/ /\ fuel > 0
       /\ \E n \in ResNames("aws:organizations:OrganizationalUnit") :
            /\ id = OuId(n)
            /\ \A p \in ParentIds(n) : ReachesRoot(p, fuel - 1)

\* C6: after createOUs has run over the whole OU configuration there is exactly
\* one OU per node of the tree, each with the parentId of its parent node's OU
\* (the organization root for a top-level node), and the created OUs form a
\* tree: every OU has a single parent and its parent chain ends at the root.
C6_OneOUPerNodeFormingATree ==
    AfterOUs =>
        /\ [i \in DOMAIN OUDeclarations |->
               [name |-> OUDeclarations[i].name,
                parentId |-> OUDeclarations[i].refs[1]]] = NodesOf(ouConfig, RootId)
        /\ Cardinality(ResNames("aws:organizations:OrganizationalUnit"))
               = Len(NodesOf(ouConfig, RootId))
        /\ \A n \in ResNames("aws:organizations:OrganizationalUnit") :
               /\ Cardinality(ParentIds(n)) = 1
               /\ ReachesRoot(OuId(n), MaxOUs + 1)

-----------------------------------------------------------------------------
(* Properties of repeated evaluation *)

-----------------------------------------------------------------------------
(* Properties of role and group wiring *)

SelectedRoles == RolesForKey(rolesConfig, RoleKey(stack))

AttachmentsOfRole(roleName) ==
    {i \in DOMAIN resources : /\ resources[i].type = "aws:iam:RolePolicyAttachment"
                              /\ resources[i].owner = roleName}

\* C11: after the roles loop every selected role has been created exactly once,
\* it has exactly as many RolePolicyAttachments as its policyArns list has
\* entries, and the entry at index i is attached by the one attachment named
\* {roleName}-policy-{i}, which carries that entry's ARN.
C11_OneIndexedAttachmentPerPolicyArn ==
    (stack \in EnvStacks /\ AfterRoles) =>
        \A k \in DOMAIN SelectedRoles :
            LET role == SelectedRoles[k]
            IN  /\ Cardinality(Declared(resources, "aws:iam:Role", role.name)) = 1
                /\ Cardinality(AttachmentsOfRole(role.name)) = Len(role.policyArns)
                /\ \A i \in DOMAIN role.policyArns :
                      \E a \in AttachmentsOfRole(role.name) :
                          /\ Declared(resources, "aws:iam:RolePolicyAttachment",
                                      role.name \o "-policy-" \o ToString(i - 1)) = {a}
                          /\ resources[a].refs = <<role.policyArns[i]>>

C11_Witness ==
    /\ stack \in EnvStacks
    /\ Done
    /\ \E k \in DOMAIN SelectedRoles :
         /\ Len(SelectedRoles[k].policyArns) = 2
         /\ Cardinality(AttachmentsOfRole(SelectedRoles[k].name)) = 2


AttachmentsOfGroup(groupName) ==
    {i \in DOMAIN resources : /\ resources[i].type = "aws:iam:GroupPolicyAttachment"
                              /\ resources[i].owner = groupName}

\* C12: every createIamGroup call that has returned created its group once and
\* exactly one GroupPolicyAttachment per entry of its managedPolicyArns list:
\* the entry's attachment is the only resource named
\* {groupName}-attach-{last path segment of the entry's ARN}, it belongs to that
\* group and carries that entry's ARN, and the group has no other attachment.
C12_OneAttachmentPerManagedPolicyArn ==
    stack = "group-factory" =>
        \A k \in 1..(ui - 1) :
            LET g == calls[k]
            IN  /\ Cardinality(Declared(resources, "aws:iam:Group", g.name)) = 1
                /\ Cardinality(AttachmentsOfGroup(g.name)) = Len(g.managedPolicyArns)
                /\ \A i \in DOMAIN g.managedPolicyArns :
                      \E a \in AttachmentsOfGroup(g.name) :
                          /\ Declared(resources, "aws:iam:GroupPolicyAttachment",
                                      g.name \o "-attach-"
                                          \o LastSegment(g.managedPolicyArns[i])) = {a}
                          /\ resources[a].refs = <<g.managedPolicyArns[i]>>


Occurrences(s, x) == Cardinality({i \in DOMAIN s : s[i] = x})

DirectAttachments(user, policyName) ==
    {i \in Declared(resources, "aws:iam:UserPolicyAttachment",
                    user.username \o "-" \o policyName) :
        /\ resources[i].owner = user.username
        /\ resources[i].refs = <<PolicyArn(policyName)>>}

\* C13 (as stated): for every selected user, every entry of managedPolicies
\* that names a policy the stack created - managed or environment-specific -
\* has its UserPolicyAttachment {username}-{policyName} to that policy's ARN.
C13_AttachmentPerCreatedPolicyReference ==
    (stack \in EnvStacks /\ Done) =>
        \A k \in DOMAIN selUsers :
            \A p \in Range(selUsers[k].managedPolicies) \cap ResNames("aws:iam:Policy") :
                Cardinality(DirectAttachments(selUsers[k], p))
                    = Occurrences(selUsers[k].managedPolicies, p)

\* C13 (amended): for every selected user, every entry of managedPolicies that
\* names a policy of the managed-policies table has its UserPolicyAttachment
\* {username}-{policyName} to that policy's ARN, one declaration per entry; an
\* entry that names an environment-specific policy, or no policy, has none.
C13_AttachmentPerManagedPolicyReference ==
    (stack \in EnvStacks /\ Done) =>
        \A k \in DOMAIN selUsers :
            \A p \in Range(selUsers[k].managedPolicies) :
                Cardinality(DirectAttachments(selUsers[k], p))
                    = IF p \in Range(policiesConfig.managedPolicies)
                      THEN Occurrences(selUsers[k].managedPolicies, p)
                      ELSE 0

C13_Witness ==
    /\ stack \in EnvStacks
    /\ Done
    /\ \E k \in DOMAIN selUsers :
         \E p \in Range(selUsers[k].managedPolicies), q \in Range(selUsers[k].managedPolicies) :
             /\ p \in Range(policiesConfig.managedPolicies)
             /\ DirectAttachments(selUsers[k], p) # {}
             /\ q \in EnvPolicyNames
             /\ DirectAttachments(selUsers[k], q) = {}


-----------------------------------------------------------------------------
(* Properties of naming, tagging and persisted values *)

\* C14: within one stack evaluation no two declared resources of the same type
\* have the same logical name, so every resource handle is created exactly once.
C14_LogicalNamesAreUnique ==
    stack \in EnvStacks =>
        \A i, j \in DOMAIN resources :
            Urn(resources[i]) = Urn(resources[j]) => i = j


Taggable ==
    {"aws:iam:Policy", "aws:iam:Role", "aws:iam:Group", "aws:iam:User",
     "aws:organizations:OrganizationalUnit", "aws:organizations:Policy"}

\* C15: every policy, role, group, user and OU a stack has declared carries an
\* Environment tag and a ManagedBy tag.
C15_TaggableResourcesCarryBothTags ==
    \A i \in DOMAIN resources :
        resources[i].type \in Taggable =>
            /\ resources[i].env # NoTag
            /\ resources[i].managedBy # NoTag


IdentifierFields == {"id", "arn", "name", "rootId", "ouId"}

SecretFields == {"password", "secret", "secretAccessKey"}

\* C16 (as stated): every exported or persisted value consists only of
\* identifiers, ARNs and names.
C16_OutputsHoldOnlyIdsArnsNames ==
    \A o \in outputs : o.fields \subseteq IdentifierFields

\* C16 (amended): every exported or persisted value consists only of
\* identifiers, ARNs and names, except that the /organization/accounts
\* parameter also holds each account's email; no exported or persisted value
\* has a password or other secret field.
C16_OutputsHoldNoSecret ==
    \A o \in outputs :
        /\ o.fields \cap SecretFields = {}
        /\ o.fields \subseteq
              IF o = Persisted("/organization/accounts", o.fields)
              THEN IdentifierFields \cup {"email"}
              ELSE IdentifierFields

C16_Witness ==
    /\ pc = "done"
    /\ stack = "foundation"
    /\ Persisted("/organization/accounts", {"id", "arn", "email"}) \in outputs
    /\ Exported("accounts", {"id", "arn"}) \in outputs


-----------------------------------------------------------------------------
(* Properties of the division of work between the stacks *)

FoundationOwned ==
    {"aws:organizations:Organization", "aws:organizations:OrganizationalUnit",
     "aws:organizations:Account", "aws:organizations:Policy",
     "aws:organizations:PolicyAttachment"}

EnvironmentOwned ==
    {"aws:iam:Role", "aws:iam:RolePolicyAttachment", "aws:iam:Group",
     "aws:iam:GroupPolicyAttachment", "aws:iam:User", "aws:iam:UserGroupMembership",
     "aws:iam:UserPolicyAttachment", "aws:iam:Policy"}

TypesDeclared == {resources[i].type : i \in DOMAIN resources}

\* C17: the foundation stack declares no role, group, user or IAM policy (nor
\* any attachment of one), and an environment stack declares no organization,
\* OU, account, service-control policy or tag policy.
C17_OwnershipIsPartitioned ==
    /\ stack = "foundation" => TypesDeclared \cap EnvironmentOwned = {}
    /\ stack \in EnvStacks => TypesDeclared \cap FoundationOwned = {}

C17_Witness ==
    /\ stack = "foundation"
    /\ pc = "done"
    /\ {"aws:organizations:Organization", "aws:organizations:OrganizationalUnit",
        "aws:organizations:Account", "aws:organizations:Policy"} \subseteq TypesDeclared


\* C18: two different environment stacks evaluated over the same configuration
\* never ask for the same physical name (an IAM user name, an IAM role name, a
\* parameter path), so neither apply conflicts with the other.
C18_StacksShareNoPhysicalName ==
    run = 2 => PhysicalNames(resources) \cap lastDeclared = {}


\* C19: an environment stack evaluated while the foundation stack has not been
\* applied fails at the reference with a reference-not-found error and declares
\* no resource; so a run that ends without error had an applied foundation.
C19_UnappliedFoundationAbortsTheStack ==
    (upstream # "applied" /\ pc # "reference") =>
        /\ resources = <<>>
        /\ thrown = "ReferenceNotFound: unknown stack"


\* the path pattern /environments/{env}/roles of the persisted state interface
EnvironmentRolesPath(env) == "/environments/" \o env \o "/roles"

ParametersDeclared == {r \in Range(resources) : r.type = "aws:ssm:Parameter"}

-----------------------------------------------------------------------------
(* Properties of the engine's creation order *)

\* the declared resources an edge connects: the user, role or group it is
\* attached to and the groups, policy or role it names
Connects(e) ==
    CASE e.type = "aws:iam:UserGroupMembership" ->
             {<<"aws:iam:User", e.owner>>}
               \cup {<<"aws:iam:Group", g>> : g \in Range(e.refs)}
      [] e.type = "aws:iam:UserPolicyAttachment" ->
             {<<"aws:iam:User", e.owner>>}
               \cup {u \in DeclaredUrns :
                       u[1] = "aws:iam:Policy" /\ PolicyArn(u[2]) \in Range(e.refs)}
      [] e.type = "aws:iam:RolePolicyAttachment" ->
             {<<"aws:iam:Role", e.owner>>}
               \cup {u \in DeclaredUrns :
                       u[1] = "aws:iam:Policy" /\ PolicyArn(u[2]) \in Range(e.refs)}
      [] e.type = "aws:iam:Policy" /\ e.doc = "Allow:sts:AssumeRole" ->
             {u \in DeclaredUrns :
                u[1] = "aws:iam:Role" /\ RoleArn(u[2]) \in Range(e.refs)}
      [] OTHER -> {}

\* C21: in every order in which the engine creates resources, an attachment,
\* membership or per-pair assume policy is created only after every declared
\* resource it connects.
C21_EdgesAreCreatedAfterTheirEndpoints ==
    \A i \in DOMAIN resources :
        Urn(resources[i]) \in applied =>
            (Connects(resources[i]) \cap DeclaredUrns) \subseteq applied


UserResources(username) ==
    {i \in DOMAIN resources :
        resources[i].type = "aws:iam:User" /\ resources[i].name = username}

SatisfiedPredicates(user) ==
    {p \in {"group", "role", "environment"} :
        \/ p = "group" /\ Range(user.groups) \cap ResNames("aws:iam:Group") # {}
        \/ p = "role" /\ Range(user.assumeRoles) \cap ResNames("aws:iam:Role") # {}
        \/ p = "environment" /\ (IF stack = "prod"
                                  THEN user.environment \in {"prod", "all"}
                                  ELSE user.tagEnv \in {GroupEnv(stack), "all"})}

\* C22: in one stack evaluation no two created IAM users share a username, and
\* a user record that satisfies several inclusion predicates has yielded exactly
\* one IAM user once the evaluation is done.
C22_OneUserPerUsername ==
    /\ \A i, j \in DOMAIN resources :
          (/\ resources[i].type = "aws:iam:User"
           /\ resources[j].type = "aws:iam:User"
           /\ resources[i].name = resources[j].name) => i = j
    /\ Done =>
          \A i \in DOMAIN usersConfig :
              Cardinality(SatisfiedPredicates(usersConfig[i])) > 1 =>
                  Cardinality(UserResources(usersConfig[i].username)) = 1

\* a user record matching by group and by environment has been declared
C22_Witness ==
    /\ Done
    /\ \E i \in DOMAIN usersConfig :
         /\ {"group", "environment"} \subseteq SatisfiedPredicates(usersConfig[i])
         /\ Cardinality(UserResources(usersConfig[i].username)) = 1


AccountsDeclared ==
    {i \in DOMAIN resources : resources[i].type = "aws:organizations:Account"}

\* C23: every account the foundation stack creates has a defined parentId, the
\* id of an OU created in the same evaluation and named by the account's key in
\* the accounts table.
C23_AccountsHaveACreatedParentOU ==
    /\ \A i \in AccountsDeclared :
          /\ resources[i].refs[1] # NoTag
          /\ \E n \in ResNames("aws:organizations:OrganizationalUnit") :
                resources[i].refs[1] = OuId(n)
    /\ (stack = "foundation" /\ pc \in {"parameters", "done"}) =>
          \A k \in DOMAIN accountsConfig :
              \E i \in AccountsDeclared :
                  /\ resources[i].name = accountsConfig[k].name \o "-account"
                  /\ resources[i].refs = <<OuId(accountsConfig[k].ou)>>


OrganizationPolicies ==
    {i \in DOMAIN resources : resources[i].type = "aws:organizations:Policy"}

AttachmentsOfPolicy(name) ==
    {i \in DOMAIN resources :
        /\ resources[i].type = "aws:organizations:PolicyAttachment"
        /\ resources[i].owner = name}

CreatedTargets ==
    {RootId} \cup {OuId(n) : n \in ResNames("aws:organizations:OrganizationalUnit")}

\* C24: every service-control policy and every tag policy created has exactly
\* one PolicyAttachment, to a targetId that identifies the created organization
\* root or a created OU; an IAM policy never has a PolicyAttachment.
C24_OrganizationPoliciesHaveOneCreatedTarget ==
    (stack = "foundation" /\ pc \in {"accounts", "parameters", "done"}) =>
        /\ \A i \in OrganizationPolicies :
              /\ Cardinality(AttachmentsOfPolicy(resources[i].name)) = 1
              /\ \A a \in AttachmentsOfPolicy(resources[i].name) :
                    resources[a].refs[1] \in CreatedTargets
        /\ \A i \in DOMAIN resources :
              resources[i].type = "aws:iam:Policy" =>
                  AttachmentsOfPolicy(resources[i].name) = {}


-----------------------------------------------------------------------------
(* Properties of the roles' trust documents *)

RolesDeclared == SelectSeq(resources, LAMBDA r : r.type = "aws:iam:Role")

\* the trust documents the role factories were called with, in call order
TrustDocumentsPassed ==
    LET made == SubSeq(calls, 1, ui - 1)
        withRole == SelectSeq(made, LAMBDA o : o.assumeRolePolicy # NoTag)
    IN  [i \in DOMAIN withRole |-> withRole[i].assumeRolePolicy]

\* C25 as stated: every role a stack or a role factory creates carries the one
\* static trust document, Allow sts:AssumeRole for aws:PrincipalType = User.
C25_EveryRoleCarriesTheUserTrustDocument ==
    \A i \in DOMAIN RolesDeclared : RolesDeclared[i].doc = UserTrustDocument

\* C25: every role an environment stack creates carries the one static trust
\* document, Allow sts:AssumeRole for aws:PrincipalType = User; a role created
\* through createIamRole or createGoogleSSOProvider carries the trust document
\* its caller passed.
C25_StackRolesCarryTheUserTrustDocument ==
    /\ stack \in EnvStacks =>
          \A i \in DOMAIN RolesDeclared : RolesDeclared[i].doc = UserTrustDocument
    /\ stack = "role-factory" =>
          [i \in DOMAIN RolesDeclared |-> RolesDeclared[i].doc] = TrustDocumentsPassed

\* an environment stack has created two roles
C25_Witness ==
    /\ Done
    /\ stack \in EnvStacks
    /\ Len(RolesDeclared) = 2
    /\ \A i \in DOMAIN RolesDeclared : RolesDeclared[i].doc = UserTrustDocument


-----------------------------------------------------------------------------
(* Properties of skipped edges *)

\* the log records an evaluation has written
Logged == {o \in outputs : o.sink = "log"}

\* the references of a selected user that the wiring skips: a group that was
\* not created, a policy that is not in the managed-policy map, a role that
\* was not created
SkippedReferences(user) ==
    {<<"group", g>> : g \in Range(user.groups) \ ResNames("aws:iam:Group")}
    \cup {<<"policy", p>> : p \in Range(user.managedPolicies) \ managedPolicies}
    \cup {<<"role", r>> : r \in Range(user.assumeRoles) \ ResNames("aws:iam:Role")}

\* C26: whenever a name referenced in the wiring of a user is not present in
\* the filtered table and the edge is skipped, a warning is logged for that
\* skipped edge.
C26_EverySkippedEdgeIsLogged ==
    Done =>
        \A i \in DOMAIN usersConfig :
            UserDeclared(usersConfig[i]) =>
                \A ref \in SkippedReferences(usersConfig[i]) :
                    \E o \in Logged : o.key = <<usersConfig[i].username, ref>>


-----------------------------------------------------------------------------
(* Properties of the assume-role grants *)

AssumePolicies ==
    {i \in DOMAIN resources :
        resources[i].type = "aws:iam:Policy" /\ resources[i].doc = "Allow:sts:AssumeRole"}

\* the users a policy is attached to
UsersAttachedTo(policyName) ==
    {resources[a].owner : a \in {i \in DOMAIN resources :
        /\ resources[i].type = "aws:iam:UserPolicyAttachment"
        /\ PolicyArn(policyName) \in Range(resources[i].refs)}}

AssumeRolesOf(username) ==
    UNION {Range(usersConfig[k].assumeRoles) :
              k \in {j \in DOMAIN usersConfig : usersConfig[j].username = username}}

-----------------------------------------------------------------------------
(* Properties of the environment identifier *)

\* C28: within an environment stack one environment value is used throughout:
\* the value that selects groups also keys the role table, is the value
\* matched against the users' tag, is the Environment tag of the created roles
\* and users, and is the {env} segment of the persisted roles path.
C28_OneEnvironmentIdentifierThroughout ==
    (stack \in EnvStacks /\ Done) =>
        LET e == GroupEnv(stack)
        IN  /\ ResNames("aws:iam:Role") = Names(rolesConfig[e])
            /\ UserEnvTag(stack) = e
            /\ \A i \in DOMAIN resources :
                  resources[i].type \in {"aws:iam:Role", "aws:iam:User"} =>
                      resources[i].env = e
            /\ \A r \in ParametersDeclared : r.owner = EnvironmentRolesPath(e)


-----------------------------------------------------------------------------
(* Properties of the exported ouId *)

\* C29: the ouId an environment stack exports is the id of an OU the foundation
\* stack created and exported; it is never undefined.
C29_ExportedOuIdIsACreatedOU ==
    (stack \in EnvStacks /\ Done) =>
        /\ ExportedOuId(stack, organizationalUnits)
              \in {OuId(n) : n \in OUsExported(ouConfig)}
        /\ Exported("environment", {"name", "ouId"}) \in outputs


-----------------------------------------------------------------------------
(* Properties of the tags of an IAM policy *)

\* the tags the statement gives a policy created from these options
StatedTags(options, actual) ==
    /\ DOMAIN actual = DOMAIN options.tags \cup {"Environment", "ManagedBy"}
    /\ actual["ManagedBy"] = "pulumi"
    /\ actual["Environment"] =
          (IF options.environment = NoTag THEN "default" ELSE options.environment)
    /\ \A k \in DOMAIN options.tags \ {"Environment", "ManagedBy"} :
          actual[k] = options.tags[k]

====
